---- MODULE Spec2Model ----
(***************************************************************************)
(* The ingestion job queue of tkp-platform: the API-side producer          *)
(* (enqueue_ingestion_job), the ingestion_jobs table, and the worker loop  *)
(* (claim / process / complete / fail) of tkp_worker.main.                 *)
(*                                                                         *)
(* jobs is the COMMITTED content of ingestion_jobs, one record per row in  *)
(* insertion order; a row's id is its index.  Every transaction of the     *)
(* code is one commit step here; the claim transaction is split in the     *)
(* statement (which takes the row lock) and its commit, because other      *)
(* workers' claims run in between and skip the locked row.                 *)
(***************************************************************************)
EXTENDS Integers, Sequences, FiniteSets, TLC

\* ---------------------------------------------------------------- bounds
NumWorkers == 2
\* The deployment's KD_INGESTION_DEFAULT_MAX_ATTEMPTS (settings field
\* ingestion_default_max_attempts, any positive integer, 5 when unset).
ingestion_default_max_attempts == 2
\* The clock runs freely up to MaxNow and from there on moves from one
\* deadline of a row to the next.
MaxNow == 0
MaxAttemptK == 9
\* _chunk_text is explored for every text of up to MaxLen characters, every
\* chunk_size in 1..MaxChunkSize and every overlap in 0..MaxChunkSize, for
\* at most MaxIterations turns of its loop.
MaxLen == 4
MaxChunkSize == 3
MaxIterations == 5

\* ------------------------------------------------------ program constants
NULL == -1
\* The defaults of _chunk_text's parameters, which _process_job uses.
default_chunk_size == 900
default_overlap == 120
ingestion_retry_base_seconds == 15
ingestion_retry_max_seconds == 1800
worker_lock_timeout_seconds == 300

Workers == 1..NumWorkers
\* The API requests that call enqueue_ingestion_job: the first with some
\* arguments, and one that repeats them or overlaps it.
Requests == {1, 2}

\* Arguments of enqueue_ingestion_job.  client_key NULL is Python None and
\* 0 is the empty string; positive numbers are non-empty client keys.
EnqueueInputs ==
    { [tenant_id |-> 1, workspace_id |-> 1, kb_id |-> 1, document_id |-> 1,
       document_version_id |-> v, action |-> a, client_key |-> c] :
         v \in {1}, a \in {"upload"}, c \in {NULL, 7} }

NoInput == [tenant_id |-> NULL, workspace_id |-> NULL, kb_id |-> NULL,
            document_id |-> NULL, document_version_id |-> NULL,
            action |-> "", client_key |-> NULL]

NoClaim == [id |-> NULL, attempt_count |-> NULL, max_attempts |-> NULL, at |-> NULL]

\* No open process transaction: no now() taken, no document or job row
\* written, no chunk row deleted or inserted.
NoTxn == [at |-> NULL, status |-> "", job |-> <<>>, deleted |-> {}, inserted |-> {}]

VARIABLES
    now,        \* the store's clock, now()
    jobs,       \* committed rows of ingestion_jobs
    rowlock,    \* rowlock[i]: worker whose open claim transaction locks row i, or NULL
    pc,         \* pc[w]: the worker's position in main()'s loop
    claimed,    \* claimed[w]: the row returned by the worker's claim
    rpc,        \* rpc[r]: position of an API request inside enqueue_ingestion_job
    rin,        \* rin[r]: the arguments of the request's enqueue call
    rres,       \* rres[r]: id of the job the call returned, or NULL
    documents,          \* committed rows of documents; a row's id is its index
    document_versions,  \* committed rows of document_versions, with the stored object
    document_chunks,    \* committed rows of document_chunks
    chunker,            \* the local variables of a running _chunk_text call
    txn                 \* txn[w]: the uncommitted writes of the worker's open process transaction

\* The document tables.
store == <<documents, document_versions, document_chunks>>

vars == <<now, jobs, rowlock, pc, claimed, rpc, rin, rres, store, chunker, txn>>

Min(a, b) == IF a <= b THEN a ELSE b
Max(a, b) == IF a >= b THEN a ELSE b

RECURSIVE Pow2(_)
Pow2(n) == IF n <= 0 THEN 1 ELSE 2 * Pow2(n - 1)

JobIds == 1..Len(jobs)

\* -------------------------------------------------------------- chunker

\* A str value: the len characters from position base on of an uploaded
\* text, blanks being the positions of its whitespace characters.  Two
\* values are equal when they are the same slice of the same text.
Str(base, len, blanks) == [base |-> base, len |-> len, blanks |-> blanks]

EmptyStr == Str(0, 0, {})

\* c[s:e] for 0 <= s.
Slice(c, s, e) ==
    LET b == Min(s, c.len)
        f == Min(e, c.len) IN
      IF f <= b THEN EmptyStr
      ELSE Str(c.base + b, f - b,
               { p \in c.blanks : p >= c.base + b /\ p < c.base + f })

LeadingBlanks(c) ==
    CHOOSE k \in 0..c.len :
      /\ \A p \in 0..(k - 1) : (c.base + p) \in c.blanks
      /\ k = c.len \/ (c.base + k) \notin c.blanks

TrailingBlanks(c) ==
    CHOOSE k \in 0..c.len :
      /\ \A p \in 0..(k - 1) : (c.base + c.len - 1 - p) \in c.blanks
      /\ k = c.len \/ (c.base + c.len - 1 - k) \notin c.blanks

\* c.strip()
strip(c) ==
    IF LeadingBlanks(c) = c.len THEN EmptyStr
    ELSE Slice(c, LeadingBlanks(c), c.len - TrailingBlanks(c))

\* No _chunk_text call is running.
NoCall == [chunk_size |-> NULL, overlap |-> NULL, text_content |-> EmptyStr,
           total |-> NULL, start |-> NULL, end |-> NULL, chunks |-> <<>>,
           pc |-> "idle"]

\* _chunk_text up to its loop: an empty trimmed text returns [] at once.
ChunkStart(content, chunk_size, overlap) ==
    LET text_content == strip(content) IN
      [chunk_size |-> chunk_size, overlap |-> overlap,
       text_content |-> text_content, total |-> text_content.len,
       start |-> 0, end |-> NULL, chunks |-> <<>>,
       pc |-> IF text_content.len = 0 THEN "done" ELSE "loop"]

\* A window that starts one past the end of the previous one.
NextStartSkipping(end, overlap) == end + 1

\* start = max(0, end - overlap)
NextStart(end, overlap) == Max(0, end - overlap)

\* A turn that appends its piece even when the piece is empty.
ChunkIterateKeepingEmpty(c) ==
    IF ~(c.start < c.total) THEN [c EXCEPT !.pc = "done"]
    ELSE
      LET end == Min(c.total, c.start + c.chunk_size)
          chunk == strip(Slice(c.text_content, c.start, end))
          chunks == Append(c.chunks, chunk) IN
        IF end >= c.total
        THEN [c EXCEPT !.end = end, !.chunks = chunks, !.pc = "done"]
        ELSE [c EXCEPT !.end = end, !.chunks = chunks,
                       !.start = NextStart(end, c.overlap)]

\* One turn of `while start < total`.
ChunkIterate(c) ==
    IF ~(c.start < c.total) THEN [c EXCEPT !.pc = "done"]
    ELSE
      LET end == Min(c.total, c.start + c.chunk_size)
          chunk == strip(Slice(c.text_content, c.start, end))
          chunks == IF chunk.len > 0 THEN Append(c.chunks, chunk) ELSE c.chunks IN
        IF end >= c.total
        THEN [c EXCEPT !.end = end, !.chunks = chunks, !.pc = "done"]
        ELSE [c EXCEPT !.end = end, !.chunks = chunks,
                       !.start = NextStart(end, c.overlap)]

RECURSIVE ChunkRun(_)
ChunkRun(c) == IF c.pc = "done" THEN c.chunks ELSE ChunkRun(ChunkIterate(c))

\* _chunk_text(content) as _process_job calls it.
chunk_text(content) ==
    ChunkRun(ChunkStart(content, default_chunk_size, default_overlap))

\* The loop of a running _chunk_text call makes one turn.
ChunkLoop ==
    /\ chunker.pc = "loop"
    /\ Len(chunker.chunks) < MaxIterations
    /\ chunker' = ChunkIterate(chunker)
    /\ UNCHANGED <<now, jobs, rowlock, pc, claimed, rpc, rin, rres, store, txn>>

\* ------------------------------------------------------- document store

\* The texts of uploaded files: one that _chunk_text cuts in three windows,
\* the first of them ending in a whitespace character, and one that is
\* whitespace only.
LongText == Str(0, 2000, {899})
BlankText == Str(0, 2, {0, 1})
Contents == {LongText, BlankText}

\* _chunk_text is pure: its result for each of the stored texts.
ChunksOfContent == [content \in Contents |-> chunk_text(content)]

DocumentIds == 1..Len(documents)
VersionIds == 1..Len(document_versions)

\* SELECT ... FROM document_chunks WHERE document_version_id = v
ChunksOf(rows, v) == { c \in rows : c.document_version_id = v }

\* A loop that inserts nothing.
ChunkRowsNone(document_id, v, chunks, t, pass) == {}

\* The rows of `for i, chunk in enumerate(chunks, start=1)`.  The uuid4() of
\* a row is a fresh value: the pass (job and attempt) that writes the row
\* and the row's place in that pass.
ChunkRows(document_id, v, chunks, t, pass) ==
    { [id |-> <<pass, i>>, document_id |-> document_id, document_version_id |-> v,
       chunk_no |-> i, content |-> chunks[i], created_at |-> t]
        : i \in 1..Len(chunks) }

\* The INSERTs without the DELETE before them.
ReplaceChunksKeepingOld(rows, document_id, v, chunks, t, pass) ==
    rows \cup ChunkRows(document_id, v, chunks, t, pass)

\* DELETE FROM document_chunks WHERE document_version_id = v, then the INSERTs.
ReplaceChunks(rows, document_id, v, chunks, t, pass) ==
    (rows \ ChunksOf(rows, v)) \cup ChunkRows(document_id, v, chunks, t, pass)

\* The Document row upload_document creates, or the row after it raised
\* current_version: status pending either way.
NewDocument(source_uri, current_version) ==
    [source_uri |-> source_uri, current_version |-> current_version,
     status |-> "pending"]

\* File names by their suffix: .md/.markdown/.txt, .pdf, and the image
\* suffixes; every other name has none of them.
MarkdownNames == {1}
PdfNames == {2}
ImageNames == {3}

\* infer_parser_type(filename)
infer_parser_type(filename) ==
    IF filename \in MarkdownNames THEN "markdown"
    ELSE IF filename \in ImageNames THEN "image"
    ELSE IF filename \in PdfNames THEN "pdf"
    ELSE "generic"

\* No file under an object key: path.exists() is false.
NoObject == Str(NULL, NULL, {})

\* The DocumentVersion row upload_document creates; object_key is the key
\* persist_upload returns and object the content it stored under that key.
NewVersion(document_id, version, source_uri, content) ==
    [document_id |-> document_id, version |-> version,
     object_key |-> <<document_id, version, source_uri>>,
     parser_type |-> infer_parser_type(source_uri),
     object |-> content,
     parse_status |-> "pending"]

\* UPDATE documents SET status = st WHERE id = d
SetDocumentStatus(rows, d, st) ==
    [k \in 1..Len(rows) |-> IF k = d THEN [rows[k] EXCEPT !.status = st] ELSE rows[k]]

\* UPDATE document_versions SET parse_status = st WHERE id = v; a deleted
\* row (document_id NULL, see DeletedVersion) is not there to be updated.
SetParseStatus(rows, v, st) ==
    [k \in 1..Len(rows) |-> IF k = v /\ rows[k].document_id # NULL THEN [rows[k] EXCEPT !.parse_status = st] ELSE rows[k]]

\* A deleted document_versions row.  Ids are never used again, so the row
\* keeps its place; the file under its object key stays in the storage.
DeletedVersion(ver) == [ver EXCEPT !.document_id = NULL, !.parse_status = ""]

\* A deleted ingestion_jobs row: no status, key or lock.  The targeting fields
\* stay readable as the copy a worker holds from its claim's RETURNING.
DeletedJob(j) == [j EXCEPT !.status = "", !.idempotency_key = <<>>, !.locked_at = NULL, !.locked_by = NULL]

\* UPDATE ingestion_jobs SET ... WHERE id = i: no row, no update.
UpdateJob(rows, i, u) == IF rows[i].status = "" THEN rows ELSE [rows EXCEPT ![i] = u]

\* ------------------------------------------------------------- producer

\* A key that is the client's key verbatim when there is one.
build_job_idempotency_key_verbatim(tenant_id, workspace_id, kb_id, document_id, document_version_id, action, client_key) ==
    IF client_key # NULL /\ client_key # 0
    THEN <<client_key>>
    ELSE <<tenant_id, workspace_id, kb_id, document_id, document_version_id,
           action>>

\* build_job_idempotency_key: the basis string is the ':'-joined fields, with
\* the client key appended only when it is truthy; SHA-256 is taken as
\* collision free, so the key is identified with its basis.
build_job_idempotency_key(tenant_id, workspace_id, kb_id, document_id, document_version_id, action, client_key) ==
    IF client_key # NULL /\ client_key # 0
    THEN <<tenant_id, workspace_id, kb_id, document_id, document_version_id,
           action, client_key>>
    ELSE <<tenant_id, workspace_id, kb_id, document_id, document_version_id,
           action>>

\* Length of hashlib.sha256(...).hexdigest().
sha256_hexdigest_length == 64

\* len(digest[:64])
IdempotencyKeyLength == Min(sha256_hexdigest_length, 64)

KeyOf(in) ==
    build_job_idempotency_key(in.tenant_id, in.workspace_id, in.kb_id,
                              in.document_id, in.document_version_id,
                              in.action, in.client_key)

\* A lookup that filters on the wrong column and so never finds a row.
ExistingJobsNone(rows, tenant_id, idempotency_key) ==
    { i \in 1..Len(rows) : rows[i].tenant_id = tenant_id
                           /\ rows[i].idempotency_key = <<idempotency_key>> }

\* The lookup of enqueue_ingestion_job: rows with this tenant and key.
ExistingJobs(rows, tenant_id, idempotency_key) ==
    { i \in 1..Len(rows) : rows[i].tenant_id = tenant_id
                           /\ rows[i].idempotency_key = idempotency_key }

\* A row that is due one backoff base after its insert.
NewJobDelayed(in, key) ==
    [tenant_id |-> in.tenant_id,
     workspace_id |-> in.workspace_id,
     kb_id |-> in.kb_id,
     document_id |-> in.document_id,
     document_version_id |-> in.document_version_id,
     idempotency_key |-> key,
     status |-> "queued",
     stage |-> "queued",
     progress |-> 0,
     attempt_count |-> 0,
     max_attempts |-> ingestion_default_max_attempts,
     next_run_at |-> now + ingestion_retry_base_seconds,
     locked_at |-> NULL,
     locked_by |-> NULL,
     heartbeat_at |-> NULL,
     started_at |-> NULL,
     finished_at |-> NULL,
     error |-> NULL,
     created_at |-> now]

\* The row enqueue_ingestion_job inserts.
NewJob(in, key) ==
    [tenant_id |-> in.tenant_id,
     workspace_id |-> in.workspace_id,
     kb_id |-> in.kb_id,
     document_id |-> in.document_id,
     document_version_id |-> in.document_version_id,
     idempotency_key |-> key,
     status |-> "queued",
     stage |-> "queued",
     progress |-> 0,
     attempt_count |-> 0,
     max_attempts |-> ingestion_default_max_attempts,
     next_run_at |-> now,
     locked_at |-> NULL,
     locked_by |-> NULL,
     heartbeat_at |-> NULL,
     started_at |-> NULL,
     finished_at |-> NULL,
     error |-> NULL,
     created_at |-> now]

\* A hit that schedules the job it found once more.
ReturnExistingRequeued(rows, i) ==
    [rows EXCEPT ![i] = [@ EXCEPT !.status = "queued", !.next_run_at = now]]

\* `if existing: return existing`: the rows after a hit on row i.
ReturnExisting(rows, i) == rows

\* An API request (upload_document, reindex_document) calls
\* enqueue_ingestion_job once.  Up to the lookup: a hit returns the existing
\* job, a miss goes on to the insert.
EnqueueLookup(r, in) ==
    /\ rpc[r] = "idle"
    /\ LET hit == ExistingJobs(jobs, in.tenant_id, KeyOf(in)) IN
         IF hit # {}
         THEN /\ rpc' = [rpc EXCEPT ![r] = "returned"]
              /\ rres' = [rres EXCEPT ![r] = CHOOSE i \in hit : TRUE]
              /\ jobs' = ReturnExisting(jobs, CHOOSE i \in hit : TRUE)
         ELSE /\ rpc' = [rpc EXCEPT ![r] = "inserting"]
              /\ rres' = [rres EXCEPT ![r] = NULL]
              /\ UNCHANGED jobs
    /\ rin' = [rin EXCEPT ![r] = in]
    /\ UNCHANGED <<now, rowlock, pc, claimed, store, chunker, txn>>

\* db.add + db.flush + the caller's commit.  The unique constraint
\* uk_ingestion_job_idempotency (tenant_id, idempotency_key) rejects the
\* insert when another transaction committed the same key meanwhile.
EnqueueInsert(r) ==
    /\ rpc[r] = "inserting"
    /\ LET key == KeyOf(rin[r]) IN
         IF ExistingJobs(jobs, rin[r].tenant_id, key) # {}
         THEN /\ rpc' = [rpc EXCEPT ![r] = "raised"]
              /\ UNCHANGED <<jobs, rowlock, rres>>
         ELSE /\ jobs' = Append(jobs, NewJob(rin[r], key))
              /\ rowlock' = Append(rowlock, NULL)
              /\ rres' = [rres EXCEPT ![r] = Len(jobs) + 1]
              /\ rpc' = [rpc EXCEPT ![r] = "returned"]
    /\ UNCHANGED <<now, pc, claimed, rin, store, chunker, txn>>

\* ------------------------------------------------------------ handlers

\* File names and Idempotency-Key headers of the requests.
SourceUris == {1}
Headers == {NULL, 7}

\* enqueue_ingestion_job within its caller's transaction, run by a request
\* that no other request overlaps.
Enqueue(r, in) ==
    LET key == KeyOf(in)
        hit == ExistingJobs(jobs, in.tenant_id, key) IN
      /\ rin' = [rin EXCEPT ![r] = in]
      /\ rpc' = [rpc EXCEPT ![r] = "returned"]
      /\ IF hit # {}
         THEN /\ rres' = [rres EXCEPT ![r] = CHOOSE i \in hit : TRUE]
              /\ jobs' = ReturnExisting(jobs, CHOOSE i \in hit : TRUE)
              /\ UNCHANGED rowlock
         ELSE /\ jobs' = Append(jobs, NewJob(in, key))
              /\ rowlock' = Append(rowlock, NULL)
              /\ rres' = [rres EXCEPT ![r] = Len(jobs) + 1]

\* POST /knowledge-bases/{kb_id}/documents: the document of this file name
\* gets its next version (or is created with version 1) and status pending,
\* a version row is added for the stored file, and its job is enqueued.
upload_document(r, source_uri, content, idempotency_key) ==
    /\ rpc[r] = "idle"
    /\ content.len > 0
    /\ LET found == { x \in DocumentIds : /\ documents[x].source_uri = source_uri
                                          /\ documents[x].status # "deleted" }
           d == IF found # {} THEN CHOOSE x \in found : TRUE ELSE Len(documents) + 1
           version_no == IF found # {} THEN documents[d].current_version + 1 ELSE 1
           v == Len(document_versions) + 1 IN
         /\ documents' = IF found # {}
                         THEN [documents EXCEPT ![d] = NewDocument(source_uri, version_no)]
                         ELSE Append(documents, NewDocument(source_uri, version_no))
         /\ document_versions' = Append(document_versions, NewVersion(d, version_no, source_uri, content))
         /\ Enqueue(r, [tenant_id |-> 1, workspace_id |-> 1, kb_id |-> 1,
                        document_id |-> d, document_version_id |-> v,
                        action |-> "upload", client_key |-> idempotency_key])
    /\ UNCHANGED <<now, pc, claimed, document_chunks, chunker, txn>>

\* POST /documents/{document_id}/reindex: a job is enqueued for the
\* document's current version; the document row is left as it is.
reindex_document(r, document_id, idempotency_key) ==
    /\ rpc[r] = "idle"
    /\ document_id \in DocumentIds
    /\ documents[document_id].status # "deleted"
    /\ \E v \in VersionIds :
         /\ document_versions[v].document_id = document_id
         /\ document_versions[v].version = documents[document_id].current_version
         /\ Enqueue(r, [tenant_id |-> 1, workspace_id |-> 1, kb_id |-> 1,
                        document_id |-> document_id, document_version_id |-> v,
                        action |-> "reindex", client_key |-> idempotency_key])
    /\ UNCHANGED <<now, pc, claimed, store, chunker, txn>>

\* DELETE /documents/{document_id}: the document is marked deleted and its
\* versions, their chunks and its jobs are removed, in one transaction.  Its
\* statements wait for the locks of a claim or a process transaction that
\* has written one of these rows; it commits when none is open.
delete_document(document_id) ==
    /\ document_id \in DocumentIds
    /\ documents[document_id].status # "deleted"
    /\ \A i \in JobIds : jobs[i].document_id = document_id => rowlock[i] = NULL
    /\ \A w \in Workers :
         ~(txn[w].status # "" /\ jobs[claimed[w].id].document_id = document_id)
    /\ LET version_ids == { v \in VersionIds : document_versions[v].document_id = document_id } IN
         /\ documents' = SetDocumentStatus(documents, document_id, "deleted")
         /\ document_chunks' = { c \in document_chunks : c.document_version_id \notin version_ids }
         /\ document_versions' = [v \in VersionIds |->
                                    IF v \in version_ids
                                    THEN DeletedVersion(document_versions[v])
                                    ELSE document_versions[v]]
         /\ jobs' = [i \in JobIds |-> IF jobs[i].document_id = document_id
                                       THEN DeletedJob(jobs[i]) ELSE jobs[i]]
    /\ UNCHANGED <<now, rowlock, pc, claimed, rpc, rin, rres, chunker, txn>>

\* --------------------------------------------------------------- worker

\* The WHERE clause without its next_run_at condition.
ClaimableIgnoringNextRun(j, t) ==
    /\ j.status \in {"queued", "retrying"}
    /\ (j.locked_at = NULL \/ j.locked_at < t - worker_lock_timeout_seconds)

\* The WHERE clause without its status condition.
ClaimableAnyStatus(j, t) ==
    /\ j.next_run_at <= t
    /\ (j.locked_at = NULL \/ j.locked_at < t - worker_lock_timeout_seconds)

\* The WHERE clause of the candidate query of _claim_next_job.
Claimable(j, t) ==
    /\ j.status \in {"queued", "retrying"}
    /\ j.next_run_at <= t
    /\ (j.locked_at = NULL \/ j.locked_at < t - worker_lock_timeout_seconds)

\* A candidate query without FOR UPDATE SKIP LOCKED.
LockableAlways(i, w) == TRUE

\* FOR UPDATE SKIP LOCKED: rows locked by another open claim are passed over.
Lockable(i, w) == rowlock[i] = NULL \/ rowlock[i] = w

\* LIMIT 1 without ORDER BY: any row that matches and can be locked.
CandidatesUnordered(w) ==
    { i \in JobIds : Claimable(jobs[i], now) /\ Lockable(i, w) }

\* ORDER BY created_at ... LIMIT 1 over the rows that match and can be locked;
\* rows with equal created_at come in either order.
Candidates(w) ==
    LET ok == { i \in JobIds : Claimable(jobs[i], now) /\ Lockable(i, w) } IN
      { i \in ok : \A k \in ok : jobs[i].created_at <= jobs[k].created_at }

\* The SET list without attempt_count = j.attempt_count + 1.
ClaimUpdateNoIncrement(j, w, t) ==
    [j EXCEPT !.status = "processing",
              !.stage = "loading",
              !.progress = 5,
              !.locked_at = t,
              !.locked_by = w,
              !.heartbeat_at = t,
              !.started_at = IF j.started_at = NULL THEN t ELSE j.started_at,
              !.error = NULL]

\* The SET list of the UPDATE of _claim_next_job, with now() = t.
ClaimUpdate(j, w, t) ==
    [j EXCEPT !.status = "processing",
              !.stage = "loading",
              !.progress = 5,
              !.locked_at = t,
              !.locked_by = w,
              !.heartbeat_at = t,
              !.started_at = IF j.started_at = NULL THEN t ELSE j.started_at,
              !.attempt_count = j.attempt_count + 1,
              !.error = NULL]

\* _claim_next_job executes its statement and a row matches: the row is
\* locked and updated inside the still open transaction.
ClaimExecute(w) ==
    /\ pc[w] = "poll"
    /\ \E i \in Candidates(w) :
         /\ rowlock' = [rowlock EXCEPT ![i] = w]
         /\ claimed' = [claimed EXCEPT ![w] =
                          [id |-> i, attempt_count |-> NULL,
                           max_attempts |-> NULL, at |-> now]]
    /\ pc' = [pc EXCEPT ![w] = "claiming"]
    /\ UNCHANGED <<now, jobs, rpc, rin, rres, store, chunker, txn>>

\* _claim_next_job returns None: main sleeps one poll interval.
ClaimNoWork(w) ==
    /\ pc[w] = "poll"
    /\ Candidates(w) = {}
    /\ pc' = [pc EXCEPT ![w] = "sleep"]
    /\ UNCHANGED <<now, jobs, rowlock, claimed, rpc, rin, rres, store, chunker, txn>>

\* time.sleep(worker_poll_interval_seconds) returns; next iteration.
Wake(w) ==
    /\ pc[w] = "sleep"
    /\ pc' = [pc EXCEPT ![w] = "poll"]
    /\ UNCHANGED <<now, jobs, rowlock, claimed, rpc, rin, rres, store, chunker, txn>>

\* The claim transaction commits (end of the first `with engine.begin()`):
\* the update becomes visible, the row lock is released, and main holds the
\* RETURNING row.
ClaimCommit(w) ==
    /\ pc[w] = "claiming"
    /\ LET i == claimed[w].id
           u == ClaimUpdate(jobs[i], w, claimed[w].at) IN
         /\ jobs' = [jobs EXCEPT ![i] = u]
         /\ rowlock' = [rowlock EXCEPT ![i] = NULL]
         /\ claimed' = [claimed EXCEPT ![w] =
                          [id |-> i, attempt_count |-> u.attempt_count,
                           max_attempts |-> u.max_attempts, at |-> claimed[w].at]]
    /\ pc' = [pc EXCEPT ![w] = "processing"]
    /\ UNCHANGED <<now, rpc, rin, rres, store, chunker, txn>>

\* The `terminal` field of the job status query get_ingestion_job.
terminal(j) == j.status \in {"completed", "dead_letter"}

\* A heartbeat that renews the lease as well.
TouchHeartbeatRelocking(j, w, t) ==
    [j EXCEPT !.heartbeat_at = t, !.locked_by = w, !.locked_at = t + 1]

\* The SET list of _touch_heartbeat.
TouchHeartbeat(j, w, t) ==
    [j EXCEPT !.heartbeat_at = t, !.locked_by = w]

\* A SET list without finished_at.
MarkSuccessNoFinish(j, t) ==
    [j EXCEPT !.status = "completed",
              !.stage = "completed",
              !.progress = 100,
              !.heartbeat_at = t,
              !.locked_at = NULL,
              !.locked_by = NULL,
              !.error = NULL]

\* A SET list that also clears attempt_count.
MarkSuccessResettingAttempts(j, t) ==
    [j EXCEPT !.status = "completed",
              !.stage = "completed",
              !.progress = 100,
              !.attempt_count = 0,
              !.finished_at = t,
              !.heartbeat_at = t,
              !.locked_at = NULL,
              !.locked_by = NULL,
              !.error = NULL]

\* The SET list of _mark_success.
MarkSuccess(j, t) ==
    [j EXCEPT !.status = "completed",
              !.stage = "completed",
              !.progress = 100,
              !.finished_at = t,
              !.heartbeat_at = t,
              !.locked_at = NULL,
              !.locked_by = NULL,
              !.error = NULL]

\* The delay without its ceiling.
BackoffDelayNoCap(attempt_count, base_seconds, max_seconds) ==
    base_seconds * Pow2(Max(0, attempt_count - 1))

\* delay of _mark_failure.
BackoffDelay(attempt_count, base_seconds, max_seconds) ==
    Min(base_seconds * Pow2(Max(0, attempt_count - 1)), max_seconds)

\* should_retry with <= in place of <.
ShouldRetryInclusive(attempt_count, max_attempts) == attempt_count <= max_attempts

\* should_retry of _mark_failure.
ShouldRetry(attempt_count, max_attempts) == attempt_count < max_attempts

\* A failure that marks the document failed whether or not a retry remains.
FailureStatusAlwaysFailed(attempt_count, max_attempts) == "failed"

\* The status _mark_failure writes to the document and, as parse_status, to
\* the document version.
FailureStatus(attempt_count, max_attempts) ==
    IF ShouldRetry(attempt_count, max_attempts) THEN "pending" ELSE "failed"

\* A retry that is due at once.
MarkFailureNoDelay(j, attempt_count, max_attempts, base_seconds, max_seconds, msg, t) ==
    IF ShouldRetry(attempt_count, max_attempts)
    THEN [j EXCEPT !.status = "retrying",
                   !.stage = "failed",
                   !.progress = 0,
                   !.error = msg,
                   !.next_run_at = t,
                   !.heartbeat_at = t,
                   !.locked_at = NULL,
                   !.locked_by = NULL]
    ELSE [j EXCEPT !.status = "dead_letter",
                   !.stage = "failed",
                   !.progress = 0,
                   !.error = msg,
                   !.finished_at = t,
                   !.heartbeat_at = t,
                   !.locked_at = NULL,
                   !.locked_by = NULL]

\* A Fail that leaves the lock columns as the claim set them.
MarkFailureKeepingLock(j, attempt_count, max_attempts, base_seconds, max_seconds, msg, t) ==
    IF ShouldRetry(attempt_count, max_attempts)
    THEN [j EXCEPT !.status = "retrying",
                   !.stage = "failed",
                   !.progress = 0,
                   !.error = msg,
                   !.next_run_at = t + BackoffDelay(attempt_count, base_seconds, max_seconds),
                   !.heartbeat_at = t]
    ELSE [j EXCEPT !.status = "dead_letter",
                   !.stage = "failed",
                   !.progress = 0,
                   !.error = msg,
                   !.finished_at = t,
                   !.heartbeat_at = t]

\* A retry that puts the job back to queued.
MarkFailureRequeue(j, attempt_count, max_attempts, base_seconds, max_seconds, msg, t) ==
    IF ShouldRetry(attempt_count, max_attempts)
    THEN [j EXCEPT !.status = "queued",
                   !.next_run_at = t + BackoffDelay(attempt_count, base_seconds, max_seconds),
                   !.locked_at = NULL,
                   !.locked_by = NULL]
    ELSE [j EXCEPT !.status = "dead_letter",
                   !.finished_at = t,
                   !.locked_at = NULL,
                   !.locked_by = NULL]

\* The two UPDATEs of ingestion_jobs in _mark_failure.
MarkFailure(j, attempt_count, max_attempts, base_seconds, max_seconds, msg, t) ==
    IF ShouldRetry(attempt_count, max_attempts)
    THEN [j EXCEPT !.status = "retrying",
                   !.stage = "failed",
                   !.progress = 0,
                   !.error = msg,
                   !.next_run_at = t + BackoffDelay(attempt_count, base_seconds, max_seconds),
                   !.heartbeat_at = t,
                   !.locked_at = NULL,
                   !.locked_by = NULL]
    ELSE [j EXCEPT !.status = "dead_letter",
                   !.stage = "failed",
                   !.progress = 0,
                   !.error = msg,
                   !.finished_at = t,
                   !.heartbeat_at = t,
                   !.locked_at = NULL,
                   !.locked_by = NULL]

\* The positions of main inside its second transaction: before the first
\* statement of _process_job, after its SELECT of the version row, after it
\* marked the document and the job, after the DELETEs and after the INSERTs.
ProcessPositions == {"processing", "selected", "marked", "deleted", "inserted"}

\* An UPDATE of a documents row that never waits.
DocLockableAlways(d, w) == TRUE

\* UPDATE documents ... WHERE id = d takes the row's lock until the end of
\* the transaction: the statement of worker w goes through only while no
\* other worker's open transaction has written the row.
DocLockable(d, w) ==
    \A u \in Workers \ {w} :
      ~(txn[u].status # "" /\ jobs[claimed[u].id].document_id = d)

\* SET stage = 'chunking', progress = 45, heartbeat_at = now()
StageChunking(j, t) ==
    [j EXCEPT !.stage = "chunking", !.progress = 45, !.heartbeat_at = t]

\* The rows of a table that the unique constraint uk_chunk_no
\* (document_version_id, chunk_no) sets against the insert of rows.
UniqueConflicts(table, rows) ==
    { c \in table : \E n \in rows : /\ n.document_version_id = c.document_version_id
                                    /\ n.chunk_no = c.chunk_no }

\* A rollback that leaves the transaction's DELETEs in place.
RollbackKeepingDeletes(table, deleted, inserted) == table \ deleted

\* The exception leaves the `with engine.begin()` block: the transaction is
\* rolled back and the committed rows are what they were.
Rollback(table, deleted, inserted) == table

\* A commit that loses the transaction's DELETEs.
CommitChunksInsertsOnly(table, deleted, inserted) == table \cup inserted

\* The commit of a transaction on document_chunks: its deleted rows are
\* gone and its inserted rows are there.
CommitChunks(table, deleted, inserted) == (table \ deleted) \cup inserted

\* The version row of id v is there (not deleted).
VersionExists(rows, v) == v \in 1..Len(rows) /\ rows[v].document_id # NULL

\* The message of the RuntimeError _process_job raises after its SELECT of
\* the version row, "" when it raises none.
SelectError(rows, v) ==
    IF ~VersionExists(rows, v) THEN "document version not found"
    ELSE IF rows[v].object_key = <<>> THEN "document version object_key is empty"
    ELSE ""

\* The message of the exception _read_text_from_object raises for a version
\* row, "" when it returns the text.
ReadError(ver) ==
    IF ver.object = NoObject THEN "object not found"
    ELSE IF ver.parser_type \in {"markdown", "generic"} THEN ""
    ELSE IF ver.parser_type = "pdf" THEN "pdf parser not configured"
    ELSE IF ver.parser_type = "image" THEN "image parser/ocr not configured"
    ELSE ""

\* `if not chunks: raise`
ChunkError(ver) ==
    IF ChunksOfContent[ver.object] = <<>> THEN "document has no parseable content"
    ELSE ""

\* The first exception of _process_job that the job's version row and file
\* give rise to, "" when the pass reaches its DELETE.
ProcessError(rows, v) ==
    IF SelectError(rows, v) # "" THEN SelectError(rows, v)
    ELSE IF ReadError(rows[v]) # "" THEN ReadError(rows[v])
    ELSE ChunkError(rows[v])

\* The SELECT of the version row and the check of its object key, taken on
\* their own: a plain read, which takes no lock, so that other transactions
\* commit between it and the UPDATE of the document.
ProcessSelect(w) ==
    /\ pc[w] = "processing"
    /\ SelectError(document_versions, jobs[claimed[w].id].document_version_id) = ""
    /\ pc' = [pc EXCEPT ![w] = "selected"]
    /\ UNCHANGED <<now, jobs, rowlock, claimed, rpc, rin, rres, store, chunker, txn>>

\* _process_job up to the chunker: the version row is found, the document
\* is set to processing, the heartbeat is touched, the file is read and the
\* job is set to stage chunking.  All of it is written inside the open
\* transaction, whose now() is the instant it began.
ProcessMark(w) ==
    /\ pc[w] \in {"processing", "selected"}
    /\ LET i == claimed[w].id
           d == jobs[i].document_id
           v == jobs[i].document_version_id IN
         /\ pc[w] = "processing" => SelectError(document_versions, v) = ""
         /\ DocLockable(d, w)
         /\ ReadError(document_versions[v]) = ""
         /\ txn' = [txn EXCEPT ![w] =
                      [at |-> now, status |-> "processing",
                       job |-> << StageChunking(TouchHeartbeat(jobs[i], w, now), now) >>,
                       deleted |-> {}, inserted |-> {}]]
    /\ pc' = [pc EXCEPT ![w] = "marked"]
    /\ UNCHANGED <<now, jobs, rowlock, claimed, rpc, rin, rres, store, chunker>>

\* The chunker returned chunks and the DELETE of the version's rows runs; it
\* waits while another open transaction has deleted one of them.
ProcessDelete(w) ==
    /\ pc[w] = "marked"
    /\ LET v == jobs[claimed[w].id].document_version_id
           target == ChunksOf(document_chunks, v) IN
         /\ ChunkError(document_versions[v]) = ""
         /\ \A u \in Workers \ {w} : txn[u].deleted \cap target = {}
         /\ txn' = [txn EXCEPT ![w].deleted = target]
    /\ pc' = [pc EXCEPT ![w] = "deleted"]
    /\ UNCHANGED <<now, jobs, rowlock, claimed, rpc, rin, rres, store, chunker>>

\* The INSERT loop.  An insert waits while another open transaction has
\* inserted or deleted a row with its key, and raises when a committed row
\* that this transaction did not delete has its key.
ProcessInsert(w) ==
    /\ pc[w] = "deleted"
    /\ LET i == claimed[w].id
           d == jobs[i].document_id
           v == jobs[i].document_version_id
           rows == ChunkRows(d, v, ChunksOfContent[document_versions[v].object],
                             txn[w].at, <<i, claimed[w].attempt_count>>) IN
         /\ \A u \in Workers \ {w} :
              UniqueConflicts(txn[u].inserted \cup txn[u].deleted, rows) = {}
         /\ IF UniqueConflicts(document_chunks \ txn[w].deleted, rows) # {}
            THEN /\ txn' = [txn EXCEPT ![w] = NoTxn]
                 /\ pc' = [pc EXCEPT ![w] = "failing"]
            ELSE /\ txn' = [txn EXCEPT ![w].inserted = rows]
                 /\ pc' = [pc EXCEPT ![w] = "inserted"]
    /\ UNCHANGED <<now, jobs, rowlock, claimed, rpc, rin, rres, store, chunker>>

\* The end of _process_job, _mark_success and the commit: the transaction's
\* writes become the committed rows.
ProcessCommit(w) ==
    /\ pc[w] = "inserted"
    /\ LET i == claimed[w].id
           d == jobs[i].document_id
           v == jobs[i].document_version_id IN
         /\ document_chunks' = CommitChunks(document_chunks, txn[w].deleted, txn[w].inserted)
         /\ document_versions' = SetParseStatus(document_versions, v, "success")
         /\ documents' = SetDocumentStatus(documents, d, "ready")
         /\ jobs' = UpdateJob(jobs, i, MarkSuccess(txn[w].job[1], txn[w].at))
    /\ pc' = [pc EXCEPT ![w] = "poll"]
    /\ claimed' = [claimed EXCEPT ![w] = NoClaim]
    /\ txn' = [txn EXCEPT ![w] = NoTxn]
    /\ UNCHANGED <<now, rowlock, rpc, rin, rres, chunker>>

\* The second transaction of main: _process_job runs to its end and
\* _mark_success follows; everything commits together, so of the job row's
\* intermediate updates (heartbeat, stage chunking) only the last is seen.
\* _process_job reaches its end only with a version row that has an object
\* key, a file that a text parser reads and at least one chunk; it replaces the version's chunks and sets parse_status success and
\* the document's status ready (the status processing it set earlier is
\* never committed).
ProcessSuccess(w) ==
    /\ pc[w] = "processing"
    /\ LET i == claimed[w].id
           d == jobs[i].document_id
           v == jobs[i].document_version_id IN
         /\ ProcessError(document_versions, v) = ""
         /\ LET chunks == ChunksOfContent[document_versions[v].object] IN
              document_chunks' = ReplaceChunks(document_chunks, d, v, chunks, now,
                                               <<i, claimed[w].attempt_count>>)
         /\ document_versions' = SetParseStatus(document_versions, v, "success")
         /\ documents' = SetDocumentStatus(documents, d, "ready")
         /\ jobs' = UpdateJob(jobs, i, MarkSuccess(TouchHeartbeat(jobs[i], w, now), now))
    /\ pc' = [pc EXCEPT ![w] = "poll"]
    /\ claimed' = [claimed EXCEPT ![w] = NoClaim]
    /\ UNCHANGED <<now, rowlock, rpc, rin, rres, chunker, txn>>

\* A step of _process_job raises: the transaction rolls back and main
\* enters `except Exception` with a claimed job.
ProcessRaise(w) ==
    /\ pc[w] \in ProcessPositions
    /\ pc' = [pc EXCEPT ![w] = "failing"]
    /\ document_chunks' = Rollback(document_chunks, txn[w].deleted, txn[w].inserted)
    /\ txn' = [txn EXCEPT ![w] = NoTxn]
    /\ UNCHANGED <<now, jobs, rowlock, claimed, rpc, rin, rres, documents, document_versions, chunker>>

\* The third transaction of main: _mark_failure with the attempt counters
\* the claim returned.  Its UPDATE of the document waits for the row's lock.
Fail(w) ==
    /\ pc[w] = "failing"
    /\ LET i == claimed[w].id
           st == FailureStatus(claimed[w].attempt_count, claimed[w].max_attempts) IN
         /\ DocLockable(jobs[i].document_id, w)
         /\ jobs' = UpdateJob(jobs, i,
                               MarkFailure(jobs[i], claimed[w].attempt_count,
                                           claimed[w].max_attempts,
                                           ingestion_retry_base_seconds,
                                           ingestion_retry_max_seconds, 1, now))
         /\ document_versions' =
              SetParseStatus(document_versions, jobs[i].document_version_id, st)
         /\ documents' = SetDocumentStatus(documents, jobs[i].document_id, st)
    /\ pc' = [pc EXCEPT ![w] = "poll"]
    /\ claimed' = [claimed EXCEPT ![w] = NoClaim]
    /\ UNCHANGED <<now, rowlock, rpc, rin, rres, document_chunks, chunker, txn>>

\* The store fails while main is inside `except Exception`: engine.begin()
\* or _mark_failure raises there, nothing catches it, and main ends with the
\* job still processing.
FailRaise(w) ==
    /\ pc[w] = "failing"
    /\ pc' = [pc EXCEPT ![w] = "exited"]
    /\ UNCHANGED <<now, jobs, rowlock, claimed, rpc, rin, rres, store, chunker, txn>>

\* The worker process dies between the commit of its claim and the commit
\* of Complete or Fail; an open transaction is rolled back by the store.
Crash(w) ==
    /\ pc[w] \in ProcessPositions \cup {"failing"}
    /\ pc' = [pc EXCEPT ![w] = "crashed"]
    /\ txn' = [txn EXCEPT ![w] = NoTxn]
    /\ UNCHANGED <<now, jobs, rowlock, claimed, rpc, rin, rres, store, chunker>>

\* ---------------------------------------------------------------- clock

\* The instants after now at which a row's claimability can change: a
\* next_run_at and, for a lock whose holder died, the last instant the lock
\* is still within the lease and the first instant it is older than it.
Deadlines ==
    { t \in UNION { {jobs[i].next_run_at} \cup
                    (IF jobs[i].locked_at # NULL /\ pc[jobs[i].locked_by] = "crashed"
                     THEN {jobs[i].locked_at + worker_lock_timeout_seconds,
                           jobs[i].locked_at + worker_lock_timeout_seconds + 1}
                     ELSE {})
                    : i \in JobIds } : t > now }

\* Time passes: by one backoff base while now is below MaxNow, or up to the
\* next instant at which some row's claimability changes.
Tick ==
    /\ \/ /\ now + ingestion_retry_base_seconds <= MaxNow
          /\ now' = now + ingestion_retry_base_seconds
       \/ /\ Deadlines # {}
          /\ now' = CHOOSE t \in Deadlines : \A u \in Deadlines : t <= u
    /\ UNCHANGED <<jobs, rowlock, pc, claimed, rpc, rin, rres, store, chunker, txn>>

\* No job yet; the one document and version the enqueue calls are made for
\* are written.
Init ==
    /\ now = 0
    /\ jobs = <<>>
    /\ rowlock = <<>>
    /\ pc = [w \in Workers |-> "poll"]
    /\ claimed = [w \in Workers |-> NoClaim]
    /\ rpc = [r \in Requests |-> "idle"]
    /\ rin = [r \in Requests |-> NoInput]
    /\ rres = [r \in Requests |-> NULL]
    /\ documents = << NewDocument(1, 1) >>
    /\ document_versions = << NewVersion(1, 1, 1, LongText) >>
    /\ document_chunks = {}
    /\ chunker = NoCall
    /\ txn = [w \in Workers |-> NoTxn]

WorkerStep(w) ==
    \/ ClaimExecute(w)
    \/ ClaimNoWork(w)
    \/ Wake(w)
    \/ ClaimCommit(w)
    \/ ProcessSuccess(w)
    \/ ProcessRaise(w)
    \/ Fail(w)

RequestStep(r) ==
    \/ \E in \in EnqueueInputs : EnqueueLookup(r, in)
    \/ EnqueueInsert(r)

Next ==
    \/ \E r \in Requests : RequestStep(r)
    \/ \E w \in Workers : WorkerStep(w)
    \/ \E w \in Workers : FailRaise(w)
    \/ \E w \in Workers : Crash(w)
    \/ Tick

Spec == Init /\ [][Next]_vars

\* ---------------------------------------------- a job at its k-th attempt

\* Earliest instant of the k-th claim of a job created at 0 whose earlier
\* attempts all failed at once: the sum of the backoff delays so far.
RECURSIVE EarliestClaim(_)
EarliestClaim(k) ==
    IF k <= 1 THEN 0
    ELSE EarliestClaim(k - 1)
         + BackoffDelay(k - 1, ingestion_retry_base_seconds, ingestion_retry_max_seconds)

FirstInput == [tenant_id |-> 1, workspace_id |-> 1, kb_id |-> 1, document_id |-> 1,
               document_version_id |-> 1, action |-> "upload", client_key |-> NULL]

\* The queue after request 1 enqueued one job under a configured
\* max_attempts of m and worker 1 has just committed the job's k-th claim.
InitRetry ==
    \E k \in 1..MaxAttemptK : \E m \in {k, k + 1} :
      LET t == EarliestClaim(k) IN
        /\ now = t
        /\ jobs = << [NewJob(FirstInput, KeyOf(FirstInput)) EXCEPT
                        !.status = "processing",
                        !.stage = "loading",
                        !.progress = 5,
                        !.attempt_count = k,
                        !.max_attempts = m,
                        !.next_run_at = t,
                        !.locked_at = t,
                        !.locked_by = 1,
                        !.heartbeat_at = t,
                        !.started_at = 0,
                        !.created_at = 0] >>
        /\ rowlock = << NULL >>
        /\ pc = [w \in Workers |-> IF w = 1 THEN "processing" ELSE "poll"]
        /\ claimed = [w \in Workers |->
                        IF w = 1
                        THEN [id |-> 1, attempt_count |-> k, max_attempts |-> m, at |-> t]
                        ELSE NoClaim]
        /\ rpc = [r \in Requests |-> IF r = 1 THEN "returned" ELSE "idle"]
        /\ rin = [r \in Requests |-> IF r = 1 THEN FirstInput ELSE NoInput]
        /\ rres = [r \in Requests |-> IF r = 1 THEN 1 ELSE NULL]
        /\ documents = << NewDocument(1, 1) >>
        /\ document_versions = << NewVersion(1, 1, 1, LongText) >>
        /\ document_chunks = {}
        /\ chunker = NoCall
        /\ txn = [w \in Workers |-> NoTxn]
    /\ txn = [w \in Workers |-> NoTxn]

SpecRetry == InitRetry /\ [][Next]_vars

\* ------------------------------------------- uploads and reindexes

\* Nothing uploaded yet.
InitDocs ==
    /\ now = 0
    /\ jobs = <<>>
    /\ rowlock = <<>>
    /\ pc = [w \in Workers |-> "poll"]
    /\ claimed = [w \in Workers |-> NoClaim]
    /\ rpc = [r \in Requests |-> "idle"]
    /\ rin = [r \in Requests |-> NoInput]
    /\ rres = [r \in Requests |-> NULL]
    /\ documents = <<>>
    /\ document_versions = <<>>
    /\ document_chunks = {}
    /\ chunker = NoCall
    /\ txn = [w \in Workers |-> NoTxn]

HandlerStep(r) ==
    \/ \E source_uri \in SourceUris, content \in Contents, key \in Headers :
         upload_document(r, source_uri, content, key)
    \/ \E d \in DocumentIds, key \in Headers : reindex_document(r, d, key)

\* A worker's steps that touch the store; a poll that finds no work and the
\* sleep after it change nothing there.
JobStep(w) ==
    \/ ClaimExecute(w)
    \/ ClaimCommit(w)
    \/ ProcessSuccess(w)
    \/ ProcessRaise(w)
    \/ Fail(w)

\* Requests that do not overlap one another, and workers that do not die.
NextDocs ==
    \/ \E r \in Requests : HandlerStep(r)
    \/ \E w \in Workers : JobStep(w)
    \/ Tick

SpecDocs == InitDocs /\ [][NextDocs]_vars

\* ------------------------------- the process transaction, statement-wise

\* A worker's steps with the process transaction taken statement by
\* statement.
TxnStep(w) ==
    \/ ClaimExecute(w)
    \/ ClaimCommit(w)
    \/ ProcessMark(w)
    \/ ProcessDelete(w)
    \/ ProcessInsert(w)
    \/ ProcessCommit(w)
    \/ ProcessRaise(w)
    \/ Fail(w)

\* Upload-action enqueue calls and reindex requests for the one version of
\* document 1, and workers that do not die.
NextTxn ==
    \/ \E r \in Requests : RequestStep(r)
    \/ \E r \in Requests, d \in DocumentIds, key \in Headers : reindex_document(r, d, key)
    \/ \E w \in Workers : TxnStep(w)
    \/ Tick

\* ---------------------------------------- requests after finished jobs

ReindexInput(client_key) == [tenant_id |-> 1, workspace_id |-> 1, kb_id |-> 1, document_id |-> 1, document_version_id |-> 1, action |-> "reindex", client_key |-> client_key]

\* The row of a reindex job enqueued at 0 that a worker claimed at 0 and
\* completed at once.
CompletedJob(in) ==
    MarkSuccess(ClaimUpdate([NewJob(in, KeyOf(in)) EXCEPT !.created_at = 0,
                                                          !.next_run_at = 0],
                            1, 0), 0)

\* The row of a reindex job enqueued at 0 whose every attempt failed at
\* once, the last of them at t.
DeadLetterJob(in, t) ==
    LET m == ingestion_default_max_attempts IN
      MarkFailure([ClaimUpdate([NewJob(in, KeyOf(in)) EXCEPT !.created_at = 0], 1, t)
                     EXCEPT !.attempt_count = m, !.started_at = 0],
                  m, m, ingestion_retry_base_seconds, ingestion_retry_max_seconds, 1, t)

\* Document 1 was reindexed twice: the job without a client key completed
\* and wrote the chunks, the job with client key 7 failed for the last time
\* just now.
InitDone ==
    /\ now = EarliestClaim(ingestion_default_max_attempts)
    /\ jobs = << CompletedJob(ReindexInput(NULL)), DeadLetterJob(ReindexInput(7), now) >>
    /\ rowlock = << NULL, NULL >>
    /\ pc = [w \in Workers |-> "poll"]
    /\ claimed = [w \in Workers |-> NoClaim]
    /\ rpc = [r \in Requests |-> "idle"]
    /\ rin = [r \in Requests |-> NoInput]
    /\ rres = [r \in Requests |-> NULL]
    /\ documents = SetDocumentStatus(<< NewDocument(1, 1) >>, 1, "failed")
    /\ document_versions = SetParseStatus(<< NewVersion(1, 1, 1, LongText) >>, 1, "failed")
    /\ document_chunks = ChunkRows(1, 1, ChunksOfContent[LongText], 0, <<1, 1>>)
    /\ chunker = NoCall
    /\ txn = [w \in Workers |-> NoTxn]

SpecDone == InitDone /\ [][NextDocs]_vars

\* The statement-wise workers after the two finished reindex jobs: the
\* upload-action calls add new jobs for version 1, which has chunk rows.
SpecTxn == InitDone /\ [][NextTxn]_vars

\* ------------------------------------------- a document is deleted

\* Reindex requests for document 1, workers that take the process
\* transaction statement by statement and do not die, and the deletion of
\* the document.
NextDelete ==
    \/ \E r \in Requests, d \in DocumentIds, key \in Headers : reindex_document(r, d, key)
    \/ \E w \in Workers : TxnStep(w)
    \/ \E w \in Workers : ProcessSelect(w)
    \/ \E d \in DocumentIds : delete_document(d)
    \/ Tick

SpecDelete == Init /\ [][NextDelete]_vars

\* ------------------------------------------- the store fails at a claim

\* The store is out of reach of the workers up to the instant MaxNow and
\* reachable from then on.
StoreDown == now <= MaxNow

\* engine.begin() or the statement of _claim_next_job raises, the store being
\* unreachable or the connection lost before the row came back: the store
\* rolls back what the statement did, `claimed` is still None, and main
\* logs, sleeps one poll interval and polls again.
ClaimRaise(w) ==
    /\ StoreDown
    /\ pc[w] \in {"poll", "claiming"}
    /\ rowlock' = [i \in JobIds |-> IF rowlock[i] = w THEN NULL ELSE rowlock[i]]
    /\ claimed' = [claimed EXCEPT ![w] = NoClaim]
    /\ pc' = [pc EXCEPT ![w] = "sleep"]
    /\ UNCHANGED <<now, jobs, rpc, rin, rres, store, chunker, txn>>

\* The statement returned a row and the commit at the end of the first
\* `with engine.begin()` raises.  `claimed` was bound inside the block, so
\* main enters `except Exception` with a job.  The store has rolled the
\* claim back, or has committed it and the acknowledgement was lost.
ClaimCommitRaise(w) ==
    /\ StoreDown
    /\ pc[w] = "claiming"
    /\ LET i == claimed[w].id
           u == ClaimUpdate(jobs[i], w, claimed[w].at) IN
         /\ \/ UNCHANGED jobs
            \/ jobs' = [jobs EXCEPT ![i] = u]
         /\ rowlock' = [rowlock EXCEPT ![i] = NULL]
         /\ claimed' = [claimed EXCEPT ![w] =
                          [id |-> i, attempt_count |-> u.attempt_count,
                           max_attempts |-> u.max_attempts, at |-> claimed[w].at]]
    /\ pc' = [pc EXCEPT ![w] = "failing"]
    /\ UNCHANGED <<now, rpc, rin, rres, store, chunker, txn>>

\* The queue with a store that can fail at any statement or commit of a
\* claim, and workers that do not die.
NextOutage ==
    \/ \E r \in Requests : RequestStep(r)
    \/ \E w \in Workers : WorkerStep(w)
    \/ Tick
    \/ \E w \in Workers : ClaimRaise(w)
    \/ \E w \in Workers : ClaimCommitRaise(w)

SpecOutage == Init /\ [][NextOutage]_vars

\* ------------------------------------------ versions that cannot be read

\* The version rows a job can meet: files of every suffix class with a text
\* or only whitespace in them, a row whose file is gone from the storage,
\* and a row without an object key (the column is nullable).
FaultyVersions ==
    { NewVersion(1, 1, n, content) : n \in MarkdownNames \cup PdfNames \cup ImageNames \cup {4},
                                     content \in Contents }
    \cup { [NewVersion(1, 1, 1, LongText) EXCEPT !.object = NoObject],
           [NewVersion(1, 1, 1, LongText) EXCEPT !.object_key = <<>>] }

\* Request 1 has uploaded document 1, whose version is one of the rows
\* above, and enqueued its job.
InitFaults ==
    /\ now = 0
    /\ jobs = << NewJob(FirstInput, KeyOf(FirstInput)) >>
    /\ rowlock = << NULL >>
    /\ pc = [w \in Workers |-> "poll"]
    /\ claimed = [w \in Workers |-> NoClaim]
    /\ rpc = [r \in Requests |-> IF r = 1 THEN "returned" ELSE "idle"]
    /\ rin = [r \in Requests |-> IF r = 1 THEN FirstInput ELSE NoInput]
    /\ rres = [r \in Requests |-> IF r = 1 THEN 1 ELSE NULL]
    /\ documents = << NewDocument(1, 1) >>
    /\ document_versions \in { << ver >> : ver \in FaultyVersions }
    /\ document_chunks = {}
    /\ chunker = NoCall
    /\ txn = [w \in Workers |-> NoTxn]

\* Reindex requests for the document, workers that meet store failures and
\* die, and the deletion of the document.
NextFaults ==
    \/ \E r \in Requests, d \in DocumentIds, key \in Headers : reindex_document(r, d, key)
    \/ \E w \in Workers : WorkerStep(w)
    \/ \E w \in Workers : FailRaise(w)
    \/ \E w \in Workers : Crash(w)
    \/ \E d \in DocumentIds : delete_document(d)
    \/ Tick

SpecFaults == InitFaults /\ [][NextFaults]_vars

\* -------------------------------------------- enqueue calls of all kinds

\* Arguments that differ in the version, the action and the client key; 0 is
\* the empty client key.
KeyInputs ==
    { [tenant_id |-> 1, workspace_id |-> 1, kb_id |-> 1, document_id |-> 1,
       document_version_id |-> v, action |-> a, client_key |-> c] :
         v \in {1, 2}, a \in {"upload", "reindex"}, c \in {NULL, 0, 7} }

\* Document 1 has two versions and no job yet.
InitKeys ==
    /\ now = 0
    /\ jobs = <<>>
    /\ rowlock = <<>>
    /\ pc = [w \in Workers |-> "poll"]
    /\ claimed = [w \in Workers |-> NoClaim]
    /\ rpc = [r \in Requests |-> "idle"]
    /\ rin = [r \in Requests |-> NoInput]
    /\ rres = [r \in Requests |-> NULL]
    /\ documents = << NewDocument(1, 2) >>
    /\ document_versions = << NewVersion(1, 1, 1, LongText), NewVersion(1, 2, 1, LongText) >>
    /\ document_chunks = {}
    /\ chunker = NoCall
    /\ txn = [w \in Workers |-> NoTxn]

\* The enqueue calls alone.
NextKeys ==
    \E r \in Requests :
      \/ \E in \in KeyInputs : EnqueueLookup(r, in)
      \/ EnqueueInsert(r)

SpecKeys == InitKeys /\ [][NextKeys]_vars

\* ------------------------------------------------- a _chunk_text call

\* Every text of up to MaxLen characters, each a whitespace or not.
Texts ==
    UNION { { Str(0, n, B) : B \in SUBSET (0..(n - 1)) } : n \in 0..MaxLen }

\* _chunk_text has been called and stands before its loop.
InitChunk ==
    /\ now = 0
    /\ jobs = <<>>
    /\ rowlock = <<>>
    /\ pc = [w \in Workers |-> "poll"]
    /\ claimed = [w \in Workers |-> NoClaim]
    /\ rpc = [r \in Requests |-> "idle"]
    /\ rin = [r \in Requests |-> NoInput]
    /\ rres = [r \in Requests |-> NULL]
    /\ documents = <<>>
    /\ document_versions = <<>>
    /\ document_chunks = {}
    /\ txn = [w \in Workers |-> NoTxn]
    /\ \E content \in Texts, chunk_size \in 1..MaxChunkSize, overlap \in 0..MaxChunkSize :
         chunker = ChunkStart(content, chunk_size, overlap)

SpecChunk == InitChunk /\ [][ChunkLoop]_vars

\* ------------------------------------------------------- fair scheduling

\* Worker 1 never crashes, meets no store failure and is scheduled fairly;
\* the clock keeps moving; a request that started its insert finishes it.
FairNext ==
    \/ \E r \in Requests : RequestStep(r)
    \/ \E w \in Workers : WorkerStep(w)
    \/ \E w \in Workers \ {1} : FailRaise(w)
    \/ \E w \in Workers \ {1} : Crash(w)
    \/ Tick

FairSpec ==
    /\ Init
    /\ [][FairNext]_vars
    /\ WF_vars(WorkerStep(1))
    /\ WF_vars(Tick)
    /\ \A r \in Requests : WF_vars(EnqueueInsert(r))

TypeOK ==
    /\ now \in Nat
    /\ Len(rowlock) = Len(jobs)
    /\ \A w \in Workers : pc[w] \in {"poll", "sleep", "claiming", "failing",
                                      "crashed", "exited"} \cup ProcessPositions
    /\ \A w \in Workers : txn[w].status # "" <=> pc[w] \in ProcessPositions \ {"processing", "selected"}

\* ------------------------------------------------------------ properties

\* The claimable predicate as the specification words it, on the committed row.
SatisfiesClaimPredicate(j) ==
    /\ j.status = "queued" \/ j.status = "retrying"
    /\ j.next_run_at <= now
    /\ (j.locked_at = NULL \/ now - j.locked_at > 300)

ClaimableNow == { i \in JobIds : SatisfiesClaimPredicate(jobs[i]) }

\* Another worker's claim statement has taken row i and has not committed yet.
ClaimOpenByOther(i, w) ==
    \E v \in Workers \ {w} : pc[v] = "claiming" /\ claimed[v].id = i

\* Workers that hold job i: their claim of it committed, their Complete or
\* Fail of it has not.
Holders(i) ==
    { w \in Workers : pc[w] \in {"processing", "failing"} /\ claimed[w].id = i }

RowsLike(rows, i) ==
    { k \in 1..Len(rows) : rows[k].tenant_id = rows[i].tenant_id
                           /\ rows[k].idempotency_key = rows[i].idempotency_key }

\* C1: when exactly one job satisfies the claimable predicate, a worker's
\* claim statement gets that job unless another worker's claim already took
\* it, in which case it gets "no work"; the claim that commits raises the
\* job's attempt_count by exactly 1 and no other worker has the job.
C1_ExclusiveClaim ==
    [][\A w \in Workers :
         /\ (pc[w] = "poll" /\ pc'[w] # "poll" /\ Cardinality(ClaimableNow) = 1) =>
              LET i == CHOOSE i \in ClaimableNow : TRUE IN
                IF ClaimOpenByOther(i, w)
                THEN pc'[w] = "sleep"
                ELSE pc'[w] = "claiming" /\ claimed'[w].id = i
         /\ (pc[w] = "claiming" /\ pc'[w] = "processing") =>
              LET i == claimed[w].id IN
                /\ claimed'[w].id = i
                /\ jobs'[i].attempt_count = jobs[i].attempt_count + 1
                /\ claimed'[w].attempt_count = jobs[i].attempt_count + 1
                /\ \A v \in Workers \ {w} :
                     ~(pc'[v] \in {"claiming", "processing", "failing"}
                       /\ claimed'[v].id = i)
      ]_vars

\* Two workers polled for the only claimable job: one has it (first attempt),
\* the other was told "no work".
C1_Witness ==
    \E w \in Workers, v \in Workers :
      /\ w # v
      /\ Len(jobs) = 1
      /\ pc[w] = "processing" /\ claimed[w].id = 1
      /\ jobs[1].attempt_count = 1 /\ jobs[1].locked_by = w
      /\ pc[v] = "sleep"

\* C2: a job left in processing by a worker that died, whose locked_at is
\* older than the lease timeout, satisfies the claim query's WHERE clause.
C2_AbandonedJobClaimable ==
    \A i \in JobIds :
      ( /\ jobs[i].status = "processing"
        /\ jobs[i].locked_by # NULL
        /\ pc[jobs[i].locked_by] = "crashed"
        /\ claimed[jobs[i].locked_by].id = i
        /\ now - jobs[i].locked_at > worker_lock_timeout_seconds )
      => Claimable(jobs[i], now)

C4_SequentialEnqueueSameJob ==
    [][\A r \in Requests :
         (rpc[r] = "idle" /\ rpc'[r] # "idle") =>
           \A q \in Requests \ {r} :
             (rpc[q] = "returned" /\ rin[q] = rin'[r]) =>
               /\ rpc'[r] = "returned"
               /\ rres'[r] = rres[q]
               /\ Cardinality(RowsLike(jobs', rres[q])) = 1
      ]_vars

\* Both requests returned for identical arguments with the same job.
C4_Witness ==
    /\ rpc[1] = "returned" /\ rpc[2] = "returned"
    /\ rin[1] = rin[2]
    /\ rres[1] = rres[2]
    /\ Cardinality(RowsLike(jobs, rres[1])) = 1

\* C5: two enqueue calls with identical arguments that have both ended have
\* both returned, without an error, the same job, of which one row exists.
C5_ConcurrentEnqueueNoError ==
    \A r \in Requests, q \in Requests :
      (r # q /\ rin[r] = rin[q]
       /\ rpc[r] \in {"returned", "raised"} /\ rpc[q] \in {"returned", "raised"})
      => /\ rpc[r] = "returned" /\ rpc[q] = "returned"
         /\ rres[r] = rres[q]
         /\ Cardinality(RowsLike(jobs, rres[r])) = 1

\* C6: with a fairly scheduled worker that never crashes, every enqueued job
\* eventually is completed or dead_letter, and a dead_letter job was claimed
\* exactly max_attempts times.
C6_EveryJobTerminates ==
    /\ \A i \in 1..Cardinality(Requests) :
         (Len(jobs) >= i) ~> (Len(jobs) >= i /\ terminal(jobs[i]))
    /\ [](\A i \in JobIds : jobs[i].status = "dead_letter"
                              => jobs[i].attempt_count = jobs[i].max_attempts)

\* C7 as stated: a claim statement returns a job only if the job satisfied
\* the claimable predicate immediately before, and returns "no work" only if
\* no job satisfied it.
C7_ClaimIffPredicate ==
    [][\A w \in Workers :
         pc[w] = "poll" =>
           /\ pc'[w] = "claiming" => claimed'[w].id \in ClaimableNow
           /\ pc'[w] = "sleep" => ClaimableNow = {}
      ]_vars

\* C7 amended: ... and returns "no work" only if every job that satisfied the
\* predicate was taken by another worker's claim that had not committed yet.
C7_ClaimIffPredicateUnlocked ==
    [][\A w \in Workers :
         pc[w] = "poll" =>
           /\ pc'[w] = "claiming" => claimed'[w].id \in ClaimableNow
           /\ pc'[w] = "sleep" => \A i \in ClaimableNow : ClaimOpenByOther(i, w)
      ]_vars

\* A worker was told "no work" while the other worker's open claim has the
\* job, and a worker sleeps while a retrying job waits for its next_run_at.
C7_Witness ==
    \E w \in Workers, v \in Workers :
      /\ pc[w] = "sleep"
      /\ pc[v] = "claiming"
      /\ claimed[v].id \in ClaimableNow
      /\ \E i \in JobIds : jobs[i].status = "retrying" /\ jobs[i].next_run_at > now

\* C8: a Fail at attempt_count = k that leaves the job retrying sets
\* next_run_at = now + min(15 * 2^(k-1), 1800): 15 for k = 1, 120 for k = 4,
\* never more than 1800.
C8_BackoffSchedule ==
    [][\A i \in JobIds :
         (jobs[i].status = "processing" /\ jobs'[i].status = "retrying") =>
           LET k == jobs[i].attempt_count
               d == jobs'[i].next_run_at - now IN
             /\ k >= 1
             /\ d = (IF 15 * 2^(k - 1) <= 1800 THEN 15 * 2^(k - 1) ELSE 1800)
             /\ (k = 1 => d = 15)
             /\ (k = 4 => d = 120)
             /\ d <= 1800
      ]_vars

\* A job failed at its 8th attempt, where 15 * 2^7 exceeds the ceiling, and
\* waits 1800 seconds.
C8_Witness ==
    \E i \in JobIds :
      /\ jobs[i].status = "retrying"
      /\ jobs[i].attempt_count = 8
      /\ jobs[i].next_run_at = jobs[i].heartbeat_at + 1800

\* C9: Fail leaves the job retrying if and only if attempt_count <
\* max_attempts, and dead_letter otherwise.
C9_RetryIffAttemptsRemain ==
    [][\A w \in Workers :
         (pc[w] = "failing" /\ pc'[w] = "poll") =>
           LET i == claimed[w].id IN
             /\ jobs'[i].status \in {"retrying", "dead_letter"}
             /\ jobs'[i].status = "retrying"
                  <=> jobs[i].attempt_count < jobs[i].max_attempts
             /\ jobs[i].attempt_count = jobs[i].max_attempts
                  => jobs'[i].status = "dead_letter"
      ]_vars

\* One job failed with an attempt left and is retrying, another failed at
\* attempt_count = max_attempts and is dead_letter.
C9_Witness ==
    \E i \in JobIds, k \in JobIds :
      /\ jobs[i].status = "dead_letter"
      /\ jobs[i].attempt_count = jobs[i].max_attempts
      /\ jobs[k].status = "retrying"
      /\ jobs[k].attempt_count < jobs[k].max_attempts

C11_ReprocessReplacesChunks ==
    [][\A v \in VersionIds :
         LET rows == ChunksOf(document_chunks', v)
             out == chunk_text(document_versions[v].object) IN
           IF \E w \in Workers : /\ pc[w] = "processing" /\ pc'[w] = "poll"
                                  /\ jobs[claimed[w].id].document_version_id = v
           THEN /\ Cardinality(rows) = Len(out)
                /\ \A n \in 1..Len(out) :
                     \E c \in rows : /\ c.chunk_no = n
                                      /\ c.content = out[n]
                                      /\ c.created_at = now
           ELSE rows = ChunksOf(document_chunks, v)
      ]_vars

\* Two jobs for one version completed one after the other, the later one at
\* its second attempt, and the version has the three rows of the later pass.
C11_Witness ==
    \E i \in JobIds, k \in JobIds :
      /\ jobs[i].status = "completed" /\ jobs[k].status = "completed"
      /\ jobs[i].document_version_id = jobs[k].document_version_id
      /\ jobs[i].finished_at < jobs[k].finished_at
      /\ jobs[k].attempt_count >= 2
      /\ Cardinality(ChunksOf(document_chunks, jobs[k].document_version_id)) = 3
      /\ \A c \in ChunksOf(document_chunks, jobs[k].document_version_id) :
           c.created_at = jobs[k].finished_at

\* C12: in every committed state a completed job's document version has at
\* least one chunk row, and no step leaves a version that had chunk rows
\* without any.
C12_CompletedJobHasChunks ==
    /\ [](\A i \in JobIds :
            jobs[i].status = "completed"
            => ChunksOf(document_chunks, jobs[i].document_version_id) # {})
    /\ [][\A v \in VersionIds :
            ChunksOf(document_chunks, v) # {} => ChunksOf(document_chunks', v) # {}]_vars

\* A version chunked by a completed job is being processed again by a
\* second job.
C12_Witness ==
    \E i \in JobIds, k \in JobIds :
      /\ jobs[i].status = "completed"
      /\ jobs[k].status = "processing"
      /\ jobs[i].document_version_id = jobs[k].document_version_id
      /\ ChunksOf(document_chunks, jobs[i].document_version_id) # {}

\* C13: a worker in which a step after the claim raised stays alive (unless
\* the process is killed) until it has committed Fail for the job, leaving it
\* retrying or dead_letter, and is polling again.
C13_FailureNeverStopsWorker ==
    [][\A w \in Workers :
         pc[w] = "failing" =>
           \/ pc'[w] = "failing"
           \/ pc'[w] = "crashed"
           \/ /\ pc'[w] = "poll"
              /\ jobs'[claimed[w].id].status \in {"retrying", "dead_letter"}
      ]_vars

\* C14: for a non-empty trimmed text and chunk_size > overlap >= 0, the
\* first window of _chunk_text starts at 0, every next window starts at or
\* before the end of the previous one, and the last window ends at the
\* length of the trimmed text.
C14_WindowsCover ==
    (chunker.pc # "idle" /\ chunker.total > 0 /\ chunker.chunk_size > chunker.overlap)
    => /\ chunker.end = NULL => chunker.start = 0
       /\ chunker.end # NULL => (chunker.start <= chunker.end /\ chunker.end <= chunker.total)
       /\ chunker.pc = "done" => chunker.end = chunker.total

\* A call with 0 < overlap < chunk_size has returned after three windows.
C14_Witness ==
    /\ chunker.pc = "done"
    /\ chunker.overlap > 0
    /\ chunker.chunk_size > chunker.overlap
    /\ Len(chunker.chunks) >= 3
    /\ chunker.end = chunker.total

\* C15: for every chunk_size >= 1 and overlap >= 0, each turn of the loop
\* of _chunk_text that does not end the loop moves the window start
\* strictly forward.
C15_StartAdvances ==
    [][(chunker.pc = "loop" /\ chunker'.pc = "loop")
         => chunker'.start > chunker.start]_vars

\* C16: two upload requests for the same knowledge base and file name with
\* the same Idempotency-Key header return the same job.
C16_UploadRetrySameJob ==
    \A r \in Requests, q \in Requests :
      ( /\ rpc[r] = "returned" /\ rpc[q] = "returned"
        /\ rin[r].action = "upload" /\ rin[q].action = "upload"
        /\ rin[r].kb_id = rin[q].kb_id
        /\ rin[r].document_id = rin[q].document_id
        /\ rin[r].client_key = rin[q].client_key
        /\ rin[r].client_key # NULL )
      => rres[r] = rres[q]

\* C17: the commit of a claim raises the claimed job's attempt_count by
\* exactly 1, and no other step changes any job's attempt_count.
C17_AttemptCountByClaimOnly ==
    [][\A i \in JobIds :
         IF \E w \in Workers : /\ pc[w] = "claiming" /\ pc'[w] = "processing"
                                /\ claimed[w].id = i
         THEN jobs'[i].attempt_count = jobs[i].attempt_count + 1
         ELSE jobs'[i].attempt_count = jobs[i].attempt_count
      ]_vars

\* A job claimed twice, failed once and completed, which a duplicate enqueue
\* returned as well.
C17_Witness ==
    \E i \in JobIds :
      /\ jobs[i].attempt_count = 2
      /\ jobs[i].status = "completed"
      /\ jobs[i].error = NULL
      /\ rpc[1] = "returned" /\ rpc[2] = "returned"
      /\ rres[1] = i /\ rres[2] = i

\* C18: the key has 64 characters; enqueue calls that differ in the document
\* version or in the action get distinct jobs even with the same client key;
\* calls with the same version, action and client key, a missing client key
\* counting as an empty one, get the same job.
C18_KeyScopesVersionAndAction ==
    /\ IdempotencyKeyLength = 64
    /\ \A r \in Requests, q \in Requests :
         (rpc[r] = "returned" /\ rpc[q] = "returned") =>
           LET sameClient == \/ rin[r].client_key = rin[q].client_key
                             \/ /\ rin[r].client_key \in {NULL, 0}
                                /\ rin[q].client_key \in {NULL, 0}
               sameTarget == /\ rin[r].document_version_id = rin[q].document_version_id
                             /\ rin[r].action = rin[q].action IN
             /\ ~sameTarget =>
                  /\ rres[r] # rres[q]
                  /\ jobs[rres[r]].idempotency_key # jobs[rres[q]].idempotency_key
             /\ (sameTarget /\ sameClient) =>
                  /\ rres[r] = rres[q]
                  /\ r # q => Len(jobs) = 1

\* Two calls with client key 7 for the same version, one an upload and one a
\* reindex, returned two jobs.
C18_Witness ==
    /\ rpc[1] = "returned" /\ rpc[2] = "returned"
    /\ rin[1].client_key = 7 /\ rin[2].client_key = 7
    /\ rin[1].document_version_id = rin[2].document_version_id
    /\ rin[1].action = "upload" /\ rin[2].action = "reindex"
    /\ rres[1] # rres[2]
    /\ Len(jobs) = 2

\* The jobs of document d for its current version.
CurrentJobs(d) ==
    { i \in JobIds :
        /\ jobs[i].document_id = d
        /\ document_versions[jobs[i].document_version_id].version
             = documents[d].current_version }

\* C19: a document none of whose jobs is processing is failed only if a job
\* for its current version is dead_letter, ready only if a job for its
\* current version is completed, and pending if the jobs for its current
\* version are all queued or retrying.
C19_DocumentStatusReflectsJob ==
    \A d \in DocumentIds :
      (\A i \in JobIds : jobs[i].document_id = d => jobs[i].status # "processing")
      => /\ documents[d].status = "failed"
              => \E i \in CurrentJobs(d) : jobs[i].status = "dead_letter"
         /\ documents[d].status = "ready"
              => \E i \in CurrentJobs(d) : jobs[i].status = "completed"
         /\ ( /\ CurrentJobs(d) # {}
              /\ \A i \in CurrentJobs(d) : jobs[i].status \in {"queued", "retrying"} )
              => documents[d].status = "pending"

C21_ClaimsOldestClaimable ==
    [][/\ \A w \in Workers :
            (pc[w] = "poll" /\ pc'[w] = "claiming") =>
              \A k \in ClaimableNow :
                jobs[claimed'[w].id].created_at <= jobs[k].created_at
       /\ \A i \in JobIds : jobs'[i].created_at = jobs[i].created_at
      ]_vars

\* C21 amended: ... the smallest created_at of all jobs that satisfy the
\* claimable predicate and are not taken by another worker's claim that has
\* not committed yet; no step changes a job's created_at, so a retried job
\* whose next_run_at has elapsed goes before every job created after it.
C21_ClaimsOldestUnlocked ==
    [][/\ \A w \in Workers :
            (pc[w] = "poll" /\ pc'[w] = "claiming") =>
              \A k \in ClaimableNow :
                \/ ClaimOpenByOther(k, w)
                \/ jobs[claimed'[w].id].created_at <= jobs[k].created_at
       /\ \A i \in JobIds : jobs'[i].created_at = jobs[i].created_at
      ]_vars

\* A job that failed once has been claimed for the second time while a job
\* created after it, claimable as well, is still queued.
C21_Witness ==
    \E i \in JobIds, k \in JobIds, w \in Workers :
      /\ pc[w] = "claiming" /\ claimed[w].id = i
      /\ jobs[i].status = "retrying"
      /\ jobs[i].attempt_count = 1
      /\ jobs[i].created_at < jobs[k].created_at
      /\ jobs[k].status = "queued"
      /\ k \in ClaimableNow

\* C22: a claim statement takes a retrying job only when at least the
\* backoff delay of its last Fail, min(15 * 2^(k-1), 1800) for a Fail at
\* attempt k, has passed since that Fail; and a poll finds no work only if
\* every retrying job whose next_run_at has elapsed is taken by another
\* worker's claim that has not committed yet.
C22_NoClaimBeforeBackoff ==
    [][\A w \in Workers :
         /\ (pc[w] = "poll" /\ pc'[w] = "claiming") =>
              LET i == claimed'[w].id
                  k == jobs[i].attempt_count
                  d == IF 15 * 2^(k - 1) <= 1800 THEN 15 * 2^(k - 1) ELSE 1800 IN
                jobs[i].status = "retrying" => now - jobs[i].heartbeat_at >= d
         /\ (pc[w] = "poll" /\ pc'[w] = "sleep") =>
              \A i \in JobIds :
                (jobs[i].status = "retrying" /\ jobs[i].next_run_at <= now)
                => ClaimOpenByOther(i, w)
      ]_vars

\* A job that failed at its third attempt is taken again exactly 60 seconds
\* after the Fail, and the other worker found no work meanwhile.
C22_Witness ==
    \E i \in JobIds, w \in Workers, v \in Workers :
      /\ pc[w] = "claiming" /\ claimed[w].id = i
      /\ jobs[i].status = "retrying"
      /\ jobs[i].attempt_count = 3
      /\ now = jobs[i].heartbeat_at + 60
      /\ now = jobs[i].next_run_at
      /\ pc[v] = "sleep"

\* C23: an enqueue that inserts adds exactly one row and changes no other;
\* the new row is queued, at stage queued and progress 0, with attempt_count
\* 0, the configured max_attempts, next_run_at = now and no lock or
\* heartbeat, and it satisfies the claimable predicate at once.
C23_NewJobFields ==
    [][Len(jobs') # Len(jobs) =>
         LET i == Len(jobs') IN
           /\ Len(jobs') = Len(jobs) + 1
           /\ \A k \in JobIds : jobs'[k] = jobs[k]
           /\ \E r \in Requests : rpc[r] # "returned" /\ rpc'[r] = "returned" /\ rres'[r] = i
           /\ jobs'[i].status = "queued"
           /\ jobs'[i].stage = "queued"
           /\ jobs'[i].progress = 0
           /\ jobs'[i].attempt_count = 0
           /\ jobs'[i].max_attempts = ingestion_default_max_attempts
           /\ jobs'[i].next_run_at = now
           /\ jobs'[i].locked_at = NULL
           /\ jobs'[i].locked_by = NULL
           /\ jobs'[i].heartbeat_at = NULL
           /\ i \in ClaimableNow'
           /\ rowlock'[i] = NULL
      ]_vars

\* A job enqueued after the clock has moved is taken by a worker at the
\* instant of its insert.
C23_Witness ==
    \E i \in JobIds, w \in Workers :
      /\ now > 0
      /\ jobs[i].created_at = now
      /\ jobs[i].next_run_at = now
      /\ jobs[i].status = "queued"
      /\ jobs[i].attempt_count = 0
      /\ pc[w] = "claiming" /\ claimed[w].id = i

\* C24: an enqueue call that returns a job that existed before the call
\* leaves the queue as it was, every field of every job included, whatever
\* the status of the job it found.
C24_DuplicateEnqueueChangesNothing ==
    [][\A r \in Requests :
         (rpc[r] = "idle" /\ rpc'[r] = "returned" /\ rres'[r] \in JobIds)
         => /\ jobs' = jobs
            /\ rowlock' = rowlock
            /\ pc' = pc
      ]_vars

\* A reindex request found the completed job and another the dead_letter
\* job; both jobs are as they were and there is no third job.
C24_Witness ==
    /\ rpc[1] = "returned" /\ rin[1].action = "reindex" /\ rres[1] = 1
    /\ rpc[2] = "returned" /\ rin[2].action = "reindex" /\ rres[2] = 2
    /\ jobs[1].status = "completed"
    /\ jobs[2].status = "dead_letter"
    /\ jobs[2].attempt_count = ingestion_default_max_attempts
    /\ Len(jobs) = 2

C26_DocumentStatusFollowsOutcome ==
    [][/\ \A w \in Workers :
            LET i == claimed[w].id
                v == jobs[i].document_version_id
                d == jobs[i].document_id IN
              /\ (pc[w] = "failing" /\ pc'[w] = "poll") =>
                   /\ jobs'[i].status = "retrying"
                        => /\ document_versions'[v].parse_status = "pending"
                           /\ documents'[d].status = "pending"
                   /\ jobs'[i].status = "dead_letter"
                        => /\ document_versions'[v].parse_status = "failed"
                           /\ documents'[d].status = "failed"
              /\ (pc[w] = "processing" /\ pc'[w] = "poll") =>
                   /\ jobs'[i].status = "completed"
                   /\ document_versions'[v].parse_status = "success"
                   /\ documents'[d].status = "ready"
       /\ \A v \in VersionIds :
            ( /\ document_versions[v].parse_status # "success"
              /\ document_versions'[v].parse_status = "success" )
            => \E i \in JobIds : /\ jobs[i].document_version_id = v
                                 /\ jobs[i].status = "processing"
                                 /\ jobs'[i].status = "completed"
      ]_vars

\* The job of version 1 completed and the job of version 2 failed for the
\* last time: version 1 is success, version 2 and the document are failed.
C26_Witness ==
    \E i \in JobIds, k \in JobIds :
      /\ jobs[i].status = "completed"
      /\ document_versions[jobs[i].document_version_id].parse_status = "success"
      /\ jobs[k].status = "dead_letter"
      /\ jobs[k].document_id = jobs[i].document_id
      /\ document_versions[jobs[k].document_version_id].parse_status = "failed"
      /\ documents[jobs[k].document_id].status = "failed"

\* C27: while a worker's process transaction is open and has set the job's
\* document to processing, the committed documents row, which every other
\* transaction reads, has status processing.
C27_ReadersSeeProcessing ==
    \A w \in Workers :
      pc[w] \in {"marked", "deleted", "inserted"}
      => documents[jobs[claimed[w].id].document_id].status = "processing"

\* C28: while a worker's process transaction is open and has set the job to
\* stage chunking, progress 45, with a fresh heartbeat_at, the committed
\* ingestion_jobs row, which status queries and other workers' claims read,
\* has these values.
C28_ReadersSeeChunkingStage ==
    \A w \in Workers :
      pc[w] \in {"marked", "deleted", "inserted"}
      => LET j == jobs[claimed[w].id] IN
           /\ j.stage = "chunking"
           /\ j.progress = 45
           /\ j.heartbeat_at = txn[w].job[1].heartbeat_at

\* C29: no two workers at the same time have an open process transaction
\* that is at or past the DELETE of the chunk rows of the same document
\* version.
C29_OneChunkWriterPerVersion ==
    \A w \in Workers, u \in Workers :
      ( /\ w # u
        /\ pc[w] \in {"marked", "deleted", "inserted"}
        /\ pc[u] \in {"marked", "deleted", "inserted"} )
      => jobs[claimed[w].id].document_version_id
           # jobs[claimed[u].id].document_version_id

\* A worker has deleted the rows of a version inside its open transaction
\* while another worker holds a second job for the same version and has not
\* got past the document row's lock.
C29_Witness ==
    \E w \in Workers, u \in Workers :
      /\ w # u
      /\ pc[w] = "deleted" /\ txn[w].deleted # {}
      /\ pc[u] = "processing"
      /\ claimed[w].id # claimed[u].id
      /\ jobs[claimed[w].id].document_version_id
           = jobs[claimed[u].id].document_version_id

\* C30: the committed chunk rows of a version are none at all or the whole
\* output of the chunker, one row per chunk_no 1..n, all written by one and
\* the same pass.
C30_CommittedChunksOfOnePass ==
    \A v \in VersionIds :
      LET rows == ChunksOf(document_chunks, v)
          out == chunk_text(document_versions[v].object) IN
        rows # {} =>
          /\ \A a \in rows, b \in rows : a.chunk_no = b.chunk_no => a = b
          /\ { c.chunk_no : c \in rows } = 1..Len(out)
          /\ \A c \in rows : c.content = out[c.chunk_no]
          /\ \A a \in rows, b \in rows : a.id[1] = b.id[1]

\* Two workers process two jobs for one version at the same time: the first
\* committed its pass, whose rows are the version's rows, and the second,
\* which was claimed in the meantime, is past the DELETE.
C30_Witness ==
    \E w \in Workers, a \in JobIds :
      /\ pc[w] = "inserted"
      /\ claimed[w].id # a
      /\ jobs[a].status = "completed"
      /\ jobs[a].document_version_id = jobs[claimed[w].id].document_version_id
      /\ jobs[a].started_at = jobs[claimed[w].id].started_at
      /\ a > 2
      /\ \A c \in ChunksOf(document_chunks, jobs[a].document_version_id) :
           c.id[1] = <<a, 1>>
      /\ txn[w].deleted = ChunksOf(document_chunks, jobs[a].document_version_id)

\* C31: on a pass over a version whose row or object key is absent, whose
\* file is missing, whose parser type is pdf or image, or whose text gives
\* no chunk, the worker never completes the job, and once the pass has
\* raised the worker stays with the job (unless the process is killed)
\* until it has committed Fail for it, leaving it retrying or dead_letter.
C31_UnreadablePassFails ==
    [][\A w \in Workers :
         LET i == claimed[w].id IN
           ( /\ pc[w] \in {"processing", "failing"}
             /\ jobs[i].status = "processing"
             /\ ProcessError(document_versions, jobs[i].document_version_id) # "" )
           => /\ jobs'[i].status # "completed"
              /\ pc[w] = "processing" => pc'[w] \in {"processing", "failing", "crashed"}
              /\ pc[w] = "failing" =>
                   \/ pc'[w] \in {"failing", "crashed"}
                   \/ jobs'[i].status = ""
                   \/ /\ pc'[w] = "poll"
                      /\ jobs'[i].status \in {"retrying", "dead_letter"}
      ]_vars

\* C32: a claim attempt that ends otherwise than with a committed claim
\* ("no work", or an exception of the store) leaves every job row as it was
\* and takes the worker to its poll-interval sleep.
C32_FailedClaimSleeps ==
    [][\A w \in Workers :
         ( /\ pc[w] \in {"poll", "claiming"}
           /\ pc'[w] \notin {pc[w], "claiming", "processing"} )
         => /\ pc'[w] = "sleep"
            /\ jobs' = jobs
      ]_vars

\* C33: a worker's Complete (with the Heartbeat of its pass) or Fail that
\* changes a job row finds the row with status processing, the worker's id
\* in locked_by and the attempt_count the worker's claim returned.
C33_OnlyLeaseHolderWrites ==
    [][\A w \in Workers :
         LET i == claimed[w].id IN
           ( /\ pc[w] \in {"processing", "failing"}
             /\ pc'[w] = "poll"
             /\ jobs'[i] # jobs[i] )
           => /\ jobs[i].locked_by = w
              /\ jobs[i].status = "processing"
              /\ jobs[i].attempt_count = claimed[w].attempt_count
      ]_vars

\* C34: the chunks _chunk_text has collected are non-empty pieces of the
\* trimmed text in text order; a call that has returned gives no chunk for
\* a whitespace-only text, the trimmed text as its one chunk when that is
\* no longer than chunk_size, and n chunks with
\* (n - 1) * (chunk_size - overlap) < L - overlap <= n * (chunk_size - overlap)
\* for a whitespace-free text of length L > chunk_size; the defaults give 5
\* chunks for L = 2200, chunk_size = 500, overlap = 50.
C34_ChunkerOutput ==
    LET chunks == chunker.chunks
        n == Len(chunks)
        L == chunker.total
        step == chunker.chunk_size - chunker.overlap IN
      /\ \A k \in 1..n :
           /\ chunks[k].len > 0
           /\ chunks[k].base >= chunker.text_content.base
           /\ chunks[k].base + chunks[k].len <= chunker.text_content.base + L
           /\ chunks[k] = Slice(chunker.text_content,
                                chunks[k].base - chunker.text_content.base,
                                chunks[k].base - chunker.text_content.base + chunks[k].len)
      /\ \A k \in 1..(n - 1) :
           /\ chunks[k].base <= chunks[k + 1].base
           /\ chunks[k].base + chunks[k].len <= chunks[k + 1].base + chunks[k + 1].len
      /\ chunker.pc = "done" =>
           /\ L = 0 => chunks = <<>>
           /\ (L > 0 /\ L <= chunker.chunk_size) => chunks = << chunker.text_content >>
           /\ (L > chunker.chunk_size /\ chunker.text_content.blanks = {}) =>
                /\ (n - 1) * step < L - chunker.overlap
                /\ L - chunker.overlap <= n * step
      /\ Len(ChunkRun(ChunkStart(Str(0, 2200, {}), 500, 50))) = 5

\* A call on a whitespace-free text longer than chunk_size, with an overlap
\* between 0 and chunk_size, has returned three chunks.
C34_Witness ==
    /\ chunker.pc = "done"
    /\ chunker.text_content.blanks = {}
    /\ chunker.total > chunker.chunk_size
    /\ chunker.overlap > 0
    /\ chunker.overlap < chunker.chunk_size
    /\ Len(chunker.chunks) = 3

\* The columns no queue operation writes.
Targeting(j) ==
    <<j.tenant_id, j.workspace_id, j.kb_id, j.document_id, j.document_version_id,
      j.idempotency_key, j.max_attempts, j.created_at>>

\* C35: no step (claim, heartbeat, Complete, Fail, an enqueue that finds the
\* job) changes a job's tenant_id, workspace_id, kb_id, document_id,
\* document_version_id, idempotency_key, max_attempts or created_at; and the
\* row as a pass's heartbeats have written it inside the open transaction
\* has these columns and status, attempt_count, locked_at and next_run_at as
\* the committed row has them.
C35_TargetingNeverWritten ==
    /\ [][\A i \in JobIds : Targeting(jobs'[i]) = Targeting(jobs[i])]_vars
    /\ [](\A w \in Workers :
            txn[w].status # "" =>
              LET j == jobs[claimed[w].id]
                  h == txn[w].job[1] IN
                /\ Targeting(h) = Targeting(j)
                /\ h.status = j.status
                /\ h.attempt_count = j.attempt_count
                /\ h.locked_at = j.locked_at
                /\ h.next_run_at = j.next_run_at)

\* A job at its second attempt, which two enqueue calls returned, has been
\* touched by the heartbeats of the open pass, later than it was claimed
\* first.
C35_Witness ==
    \E w \in Workers :
      /\ pc[w] = "marked"
      /\ jobs[claimed[w].id].attempt_count = 2
      /\ txn[w].job[1].stage = "chunking"
      /\ txn[w].job[1].heartbeat_at > jobs[claimed[w].id].started_at
      /\ rpc[1] = "returned" /\ rpc[2] = "returned"
      /\ rres[1] = claimed[w].id /\ rres[2] = claimed[w].id

\* C36: every job has attempt_count <= max_attempts, and so has the copy
\* of the counters a worker holds from its claim: no job is claimed more
\* often than max_attempts times.
C36_AttemptsWithinMax ==
    /\ \A i \in JobIds : jobs[i].attempt_count <= jobs[i].max_attempts
    /\ \A w \in Workers :
         claimed[w].attempt_count # NULL => claimed[w].attempt_count <= claimed[w].max_attempts

\* C37: in every committed state a job has a locked_at and a locked_by
\* exactly when its status is processing; a queued or retrying job has
\* neither.
C37_LockedIffProcessing ==
    \A i \in JobIds :
      /\ jobs[i].locked_at # NULL <=> jobs[i].status = "processing"
      /\ jobs[i].locked_by # NULL <=> jobs[i].status = "processing"
      /\ jobs[i].status \in {"queued", "retrying"} => jobs[i].locked_at = NULL

\* A job is retrying after a Fail, without a lock, while another job is
\* processing under the lock of its worker, and a third state of the same
\* kind: a job left processing by a worker that died keeps its lock.
C37_Witness ==
    \E i \in JobIds, k \in JobIds, w \in Workers :
      /\ jobs[i].status = "retrying"
      /\ jobs[i].heartbeat_at # NULL
      /\ jobs[i].locked_at = NULL /\ jobs[i].locked_by = NULL
      /\ jobs[k].status = "processing"
      /\ jobs[k].locked_by = w /\ jobs[k].locked_at # NULL
      /\ pc[w] = "crashed"

\* C38: no step of a worker inside its process transaction, and no raise
\* that ends it, changes a committed row: the documents, versions, chunk
\* rows and jobs are as before the attempt, and nothing of the transaction
\* is left.  The Fail that follows writes the job, the version's
\* parse_status and the document's status and leaves the chunk rows alone.
C38_RaiseRollsBack ==
    [][\A w \in Workers :
         /\ ( /\ pc[w] \in ProcessPositions
              /\ pc'[w] \in (ProcessPositions \ {"processing"}) \cup {"failing"}
              /\ pc'[w] # pc[w] )
            => /\ jobs' = jobs
               /\ documents' = documents
               /\ document_versions' = document_versions
               /\ document_chunks' = document_chunks
               /\ pc'[w] = "failing" => txn'[w] = NoTxn
         /\ (pc[w] = "failing" /\ pc'[w] = "poll")
            => /\ document_chunks' = document_chunks
               /\ jobs'[claimed[w].id].status \in {"retrying", "dead_letter"}
               /\ jobs'[claimed[w].id].stage = "failed"
      ]_vars

\* A pass over a version that has chunk rows of an earlier pass has raised:
\* the rows are still those of the earlier pass, the job is at the stage
\* the claim gave it and the document is not processing.
C38_Witness ==
    \E w \in Workers :
      LET i == claimed[w].id
          v == jobs[i].document_version_id IN
        /\ pc[w] = "failing"
        /\ i > 2
        /\ jobs[i].status = "processing" /\ jobs[i].stage = "loading"
        /\ jobs[i].attempt_count = 2
        /\ ChunksOf(document_chunks, v) # {}
        /\ \A c \in ChunksOf(document_chunks, v) : c.id[1] = <<1, 1>>
        /\ documents[jobs[i].document_id].status = "pending"

\* C39: once a document is deleted, no step changes its status or adds a
\* chunk row for it.
C39_DeletedStaysDeleted ==
    [][\A d \in DocumentIds :
         documents[d].status = "deleted" =>
           /\ documents'[d].status = "deleted"
           /\ { c \in document_chunks' : c.document_id = d }
                \subseteq { c \in document_chunks : c.document_id = d }
      ]_vars
====
